---- MODULE Spec2Model ----
(***************************************************************************)
(* Operator registration (aten/src/ATen/core/op_registration/              *)
(* op_registration.cpp): the Library registration session, the legacy      *)
(* RegisterOperators batch registrar, and the Dispatcher they register     *)
(* with.  An owner is one Library or RegisterOperators object; it owns the *)
(* RegistrationHandleRAII tokens of the registrations it made.             *)
(***************************************************************************)
EXTENDS Naturals, Sequences, FiniteSets, TLC

\* ------------------------------------------------------------- bounds
NumOwners == 2      \* objects (Library / RegisterOperators) that may exist at once
MaxHandles == 3     \* registrations the Dispatcher holds at once
MaxKernels == 2     \* kernels in one RegisterOperators::Options

\* ------------------------------------------------------------- values
None == "nullopt"                         \* c10::nullopt / nullptr
Crash == "<crash>"                        \* the process dies on an invalid read
Owners == 1..NumOwners
Handles == 1..MaxHandles
Namespaces == {"mylib", "otherlib"}
Wildcard == "_"
DispatchKeys == {"CPU", "CUDA"}
CatchAll == "CatchAll"
Library_DEF == "TORCH_LIBRARY"
Library_IMPL == "TORCH_LIBRARY_IMPL"
Library_FRAGMENT == "TORCH_LIBRARY_FRAGMENT"
Kinds == {Library_DEF, Library_IMPL, Library_FRAGMENT}
CONSERVATIVE == "CONSERVATIVE"
FROM_SCHEMA == "FROM_SCHEMA"

\* What a read through an empty optional may yield (undefined behaviour):
\* whatever bytes lie there taken as a string, or no result at all.
Garbage == "<garbage>"

Indeterminate == {Garbage, Crash}

\* *opt: the held value, or an indeterminate one when opt is empty.
Deref(opt) == IF opt = None THEN Indeterminate ELSE {opt}

\* OperatorName: (namespace, name, overload name).
OpName(ns, name, overload) == [ns |-> ns, name |-> name, overload_name |-> overload]

NoName == OpName(None, None, None)

\* FunctionSchema.
Schema(ns, name, overload, args, rets, vararg, varret, alias) ==
  [ns |-> ns, name |-> name, overload_name |-> overload, arguments |-> args,
   returns |-> rets, is_vararg |-> vararg, is_varret |-> varret, alias_kind |-> alias]

NullSchema == Schema(None, None, None, None, None, FALSE, FALSE, None)

operator_name(schema) == OpName(schema.ns, schema.name, schema.overload_name)

\* The schemas a kernel's own signature yields: unnamed, no alias analysis.
IntToInt == Schema(None, "", "", "int", "int", FALSE, FALSE, None)

SimpleNames == {"add"}
OverloadNames == {""}

\* Schemas as written by a caller: namespace optional.
ExplicitSchemas ==
  { Schema(ns, n, ov, IntToInt.arguments, IntToInt.returns, FALSE, FALSE, None) :
      ns \in Namespaces \cup {None}, n \in SimpleNames, ov \in OverloadNames }

\* CppFunction / KernelRegistrationConfig: dispatch key, inferred schema.
Kernel(k, schema) == [dispatch_key |-> k, schema_ |-> schema]

TensorVar == Schema(None, "", "", "Tensor", "Tensor", TRUE, FALSE, None)

\* The kernels handed to RegisterOperators: keyed and catch-all, with and
\* without an inferable signature, two different signatures among them.
Kernels == { Kernel("CPU", IntToInt), Kernel("CUDA", TensorVar),
             Kernel(None, NullSchema), Kernel(None, IntToInt) }

\* The kernels handed to a Library: one inferable signature is enough there.
CppFunctions == { Kernel(k, s) : k \in {None, "CUDA"}, s \in {NullSchema, IntToInt} }

\* The dispatch keys handed to a Library constructor.
LibraryKeys == {None, CatchAll, "CPU"}

\* The namespaces handed to a Library constructor.
LibraryNamespaces == {Wildcard, "mylib"}

\* Operator name strings, as tokens: <<"mylib", "::", "add", ".", "out">>.
NameStrings ==
  { pre \o <<n>> \o post :
      pre \in {<<>>} \cup { <<ns, "::">> : ns \in Namespaces },
      n \in SimpleNames,
      post \in {<<>>} \cup { <<".", ov>> : ov \in OverloadNames \ {""} } }

parseName(s) ==
  LET hasNs == Len(s) >= 2 /\ s[2] = "::"
      rest == IF hasNs THEN SubSeq(s, 3, Len(s)) ELSE s
  IN OpName(IF hasNs THEN s[1] ELSE None, rest[1],
            IF Len(rest) = 3 THEN rest[3] ELSE "")

\* ------------------------------------------------------------- state
VARIABLES
  registrations,  \* the Dispatcher's table: one record per live registration
  doubleRelease,  \* whether a handle ran its deregistration with nothing to undo
  owners,         \* per owner: its object state and its registrars_
  last,           \* the call in progress: operation, owner, arguments, outcome
  rt              \* progress of a define / bind / destroy sequence

vars == <<registrations, doubleRelease, owners, last, rt>>

\* ------------------------------------------------------------- Dispatcher
Registration(h, what, op, key, schema) ==
  [h |-> h, what |-> what, op |-> op, key |-> key, schema |-> schema]

LibraryReq(ns) == Registration(0, "library", OpName(ns, None, None), None, NullSchema)
DefReq(schema) == Registration(0, "def", operator_name(schema), None, schema)
ImplReq(op, key) == Registration(0, "impl", op, key, NullSchema)
FallbackReq(key) == Registration(0, "fallback", NoName, key, NullSchema)

\* Whether the Dispatcher refuses a request.
Conflicts(R, req) ==
  CASE req.what = "library" ->
         \E r \in R : r.what = "library" /\ r.op.ns = req.op.ns
    [] req.what = "def" ->
         \E r \in R : r.what = "def" /\ r.op = req.op
    [] req.what = "impl" ->
         \E r \in R : r.what = "impl" /\ r.op = req.op /\ r.key = req.key
    [] OTHER -> FALSE

\* The calls of one operation, in order, each result appended to registrars_
\* before the next call; the first refused call throws.
\* The Dispatcher names a new registration by the least handle not in use;
\* the model stops where it would need more than MaxHandles at once.
Unused(R) == Handles \ { r.h : r \in R }

NewHandle(R) == CHOOSE h \in Unused(R) : \A g \in Unused(R) : h <= g

Exhausted == "<handles>"

RECURSIVE Commit(_, _, _)
Commit(R, hs, reqs) ==
  IF reqs = <<>> THEN [regs |-> R, handles |-> hs, err |-> "ok"]
  ELSE IF Conflicts(R, Head(reqs))
       THEN [regs |-> R, handles |-> hs, err |-> "conflict"]
       ELSE IF Unused(R) = {}
       THEN [regs |-> R, handles |-> hs, err |-> Exhausted]
       ELSE Commit(R \cup {[Head(reqs) EXCEPT !.h = NewHandle(R)]},
                   Append(hs, NewHandle(R)), Tail(reqs))

\* A call that failed before reaching the Dispatcher.
Rejected(err) == [regs |-> registrations, handles |-> <<>>, err |-> err]

\* ~RegistrationHandleRAII on each element of a registrars_ vector.
SeqToSet(s) == { s[i] : i \in 1..Len(s) }

Count(s, h) == Cardinality({ i \in 1..Len(s) : s[i] = h })

ReleaseAll(R, hs) == { r \in R : r.h \notin SeqToSet(hs) }

\* Some handle of hs has nothing left to undo: it was released before.
ReleasesTwice(R, hs) ==
  \E i \in 1..Len(hs) : Count(hs, hs[i]) > 1 \/ hs[i] \notin { r.h : r \in R }

\* ------------------------------------------------------------- owners
NoOwner ==
  [state |-> "none", cls |-> None, kind_ |-> None, ns_ |-> None,
   dispatch_key_ |-> None, registrars_ |-> <<>>]

LibraryObj(state, kind, ns, k, hs) ==
  [state |-> state, cls |-> "Library", kind_ |-> kind, ns_ |-> ns,
   dispatch_key_ |-> k, registrars_ |-> hs]

\* A call and how it ended; Idle between two calls.
Call(op, o, args, err) == [op |-> op, owner |-> o, args |-> args, err |-> err]

Idle == Call("-", 0, <<>>, "ok")

Running == last = Idle

Init ==
  /\ registrations = {}
  /\ doubleRelease = FALSE
  /\ owners = [o \in Owners |-> NoOwner]
  /\ last = Idle
  /\ rt = [phase |-> 0, owner |-> 0, before |-> {}, held |-> <<>>]


\* The define / bind / destroy sequence being followed, for the round trip:
\* phase 1 after a successful def(schema) (with the table and the owner's
\* handles as they were before it), 2 after a successful impl by the same
\* owner right after, 3 after that owner's destruction right after.
NoTrip == [phase |-> 0, owner |-> 0, before |-> {}, held |-> <<>>]

Track(op, o, err) ==
  IF op = "def" /\ err = "ok"
  THEN [phase |-> 1, owner |-> o, before |-> registrations,
        held |-> owners[o].registrars_]
  ELSE IF op = "impl" /\ err = "ok" /\ rt.phase = 1 /\ rt.owner = o
  THEN [rt EXCEPT !.phase = 2]
  ELSE IF op = "~Library" /\ rt.phase = 2 /\ rt.owner = o
  THEN [rt EXCEPT !.phase = 3]
  ELSE NoTrip

\* The process dies inside call op of owner o: nothing else happens.
Dies(op, o, args) ==
  /\ last' = Call(op, o, args, Crash)
  /\ UNCHANGED <<registrations, doubleRelease, owners, rt>>

\* Call op(args) of owner o ends with outcome res; obj is the owner's object
\* after it.
Ends(op, o, args, res, obj) ==
  /\ res.err /= Exhausted
  /\ registrations' = res.regs
  /\ owners' = [owners EXCEPT ![o] = obj]
  /\ last' = Call(op, o, args, res.err)
  /\ rt' = Track(op, o, res.err)
  /\ UNCHANGED doubleRelease

\* Mutant: the handles obtained are not kept.
Holding_Dropped(o, res) == owners[o]

\* registrars_.emplace_back of every handle the call obtained.
Holding(o, res) == [owners[o] EXCEPT !.registrars_ = @ \o res.handles]

\* ------------------------------------------------------------- Library
NormNs(ns) == IF ns = Wildcard THEN None ELSE ns

NormKey(k) == IF k = None \/ k = CatchAll THEN None ELSE k

\* Mutant: the assertion on the dispatch key is inverted.
CtorCheck_KeyRequired(ns_, dispatch_key_) ==
  IF ns_ = None THEN "wildcard_namespace"
  ELSE IF dispatch_key_ = None THEN "internal_assert"
  ELSE "ok"

\* case FRAGMENT (and DEF falling through): the two checks.
CtorCheck(ns_, dispatch_key_) ==
  IF ns_ = None THEN "wildcard_namespace"
  ELSE IF dispatch_key_ /= None THEN "internal_assert"
  ELSE "ok"

\* Mutant: case DEF does not register the library.
CtorOutcome_NoReserve(kind, ns_, dispatch_key_, read) ==
  IF kind = Library_FRAGMENT
  THEN Rejected(CtorCheck(ns_, dispatch_key_))
  ELSE Rejected("ok")

\* The constructor up to and including case DEF's registerLibrary(*ns_);
\* read is what *ns_ yielded.  FRAGMENT and IMPL run to the end.
CtorOutcome(kind, ns_, dispatch_key_, read) ==
  IF kind = Library_DEF
  THEN Commit(registrations, <<>>, <<LibraryReq(read)>>)
  ELSE IF kind = Library_FRAGMENT
  THEN Rejected(CtorCheck(ns_, dispatch_key_))
  ELSE Rejected("ok")

LibraryCtor(o, kind, ns, k) ==
  /\ Running
  /\ owners[o].state = "none"
  /\ \E read \in (IF kind = Library_DEF THEN Deref(NormNs(ns)) ELSE {None}) :
       IF read = Crash THEN Dies("Library", o, <<kind, ns, k>>)
       ELSE LET res == CtorOutcome(kind, NormNs(ns), NormKey(k), read)
            IN Ends("Library", o, <<kind, ns, k>>, res,
                    IF res.err /= "ok" THEN NoOwner
                    ELSE LibraryObj(IF kind = Library_DEF THEN "ctor" ELSE "live",
                                    kind, NormNs(ns), NormKey(k), res.handles))

\* Mutant: a failing check leaves the library registered.
LibraryCtorCheck_Leaking(o) ==
  /\ Running
  /\ owners[o].state = "ctor"
  /\ LET me == owners[o]
         err == CtorCheck(me.ns_, me.dispatch_key_)
     IN /\ owners' = [owners EXCEPT ![o] =
                        IF err = "ok" THEN [me EXCEPT !.state = "live"]
                        ELSE NoOwner]
        /\ last' = Call("Library:", o, <<>>, err)
        /\ rt' = NoTrip
        /\ UNCHANGED <<registrations, doubleRelease>>

\* case DEF after registerLibrary returned: fall through to the checks.  A
\* failing check throws out of the constructor, which destroys registrars_.
LibraryCtorCheck(o) ==
  /\ Running
  /\ owners[o].state = "ctor"
  /\ LET me == owners[o]
         err == CtorCheck(me.ns_, me.dispatch_key_)
     IN /\ registrations' = IF err = "ok" THEN registrations
                            ELSE ReleaseAll(registrations, me.registrars_)
        /\ doubleRelease' = (doubleRelease \/
                             (err /= "ok" /\ ReleasesTwice(registrations, me.registrars_)))
        /\ owners' = [owners EXCEPT ![o] =
                        IF err = "ok" THEN [me EXCEPT !.state = "live"]
                        ELSE NoOwner]
        /\ last' = Call("Library:", o, <<>>, err)
        /\ rt' = NoTrip

IsLibrary(o) == owners[o].cls = "Library" /\ owners[o].state = "live"

\* Mutant: a namespace in the schema equal to the Library's is accepted.
DefResolve_AcceptsEqual(lib, schema) ==
  IF lib.kind_ \notin {Library_DEF, Library_FRAGMENT} THEN [err |-> "wrong_kind", schema |-> schema]
  ELSE IF schema.ns /= None /\ schema.ns /= lib.ns_
  THEN [err |-> "invalid_namespace", schema |-> schema]
  ELSE [err |-> "ok", schema |-> [schema EXCEPT !.ns = lib.ns_]]

\* _def(schema, out_name) up to the registerDef call: the outcome of the
\* checks and the schema with the namespace set.
DefResolve(lib, schema) ==
  IF lib.kind_ \notin {Library_DEF, Library_FRAGMENT} THEN [err |-> "wrong_kind", schema |-> schema]
  ELSE IF lib.ns_ = None THEN [err |-> "internal_assert", schema |-> schema]
  ELSE IF lib.dispatch_key_ /= None THEN [err |-> "internal_assert", schema |-> schema]
  ELSE IF schema.ns /= None
  THEN [err |-> IF schema.ns = lib.ns_ THEN "redundant_namespace" ELSE "invalid_namespace",
        schema |-> schema]
  ELSE [err |-> "ok", schema |-> [schema EXCEPT !.ns = lib.ns_]]

\* Mutant: an operator that already has an implementation is not defined
\* again; the call returns without registering.
DefOutcome_SkipsImplemented(lib, schema) ==
  LET r == DefResolve(lib, schema)
  IN IF r.err /= "ok" THEN Rejected(r.err)
     ELSE IF \E i \in registrations : i.what = "impl" /\ i.op = operator_name(r.schema)
     THEN Rejected("ok")
     ELSE Commit(registrations, <<>>, <<DefReq(r.schema)>>)

DefOutcome(lib, schema) ==
  LET r == DefResolve(lib, schema)
  IN IF r.err /= "ok" THEN Rejected(r.err)
     ELSE Commit(registrations, <<>>, <<DefReq(r.schema)>>)

Library_def(o, schema) ==
  /\ Running
  /\ IsLibrary(o)
  /\ LET res == DefOutcome(owners[o], schema)
     IN Ends("def", o, <<schema>>, res, Holding(o, res))

\* auto dispatch_key = f.dispatch_key_.has_value() ? f.dispatch_key_ : dispatch_key_
EffectiveKey(f, lib) ==
  IF f.dispatch_key /= None THEN f.dispatch_key ELSE lib.dispatch_key_

\* c10::either<OperatorName, FunctionSchema>
Left(name) == [is_right |-> FALSE, left |-> name, right |-> NullSchema]

Right(schema) == [is_right |-> TRUE, left |-> NoName, right |-> schema]

cloneWithName(schema, name) ==
  [schema EXCEPT !.ns = name.ns, !.name = name.name,
                 !.overload_name = name.overload_name]

\* The lambda of _def(name_or_schema, f): the schema to define.
DefKernelSchema(name_or_schema, f) ==
  IF name_or_schema.is_right THEN [err |-> "ok", schema |-> name_or_schema.right]
  ELSE IF f.schema_ = NullSchema THEN [err |-> "no_schema", schema |-> NullSchema]
  ELSE [err |-> "ok",
        schema |-> [cloneWithName(f.schema_, name_or_schema.left)
                      EXCEPT !.alias_kind = CONSERVATIVE]]

\* _def(name_or_schema, f): define the schema, then register the kernel.
DefKernelOutcome(lib, name_or_schema, f) ==
  LET s == DefKernelSchema(name_or_schema, f)
      r == DefResolve(lib, s.schema)
  IN IF s.err /= "ok" THEN Rejected(s.err)
     ELSE IF r.err /= "ok" THEN Rejected(r.err)
     ELSE Commit(registrations, <<>>,
                 << DefReq(r.schema),
                    ImplReq(operator_name(r.schema), EffectiveKey(f, lib)) >>)

Library_def_kernel(o, name_or_schema, f) ==
  /\ Running
  /\ IsLibrary(o)
  /\ LET res == DefKernelOutcome(owners[o], name_or_schema, f)
     IN Ends("def_kernel", o, <<name_or_schema, f>>, res, Holding(o, res))

\* Mutant: a namespace in the name equal to the Library's is accepted.
ImplResolve_AcceptsEqual(name, read) ==
  IF name.ns /= None /\ name.ns /= read
  THEN [err |-> "invalid_namespace", name |-> name]
  ELSE [err |-> "ok", name |-> [name EXCEPT !.ns = read]]

\* Mutant: an explicit namespace is taken as it is.
ImplResolve_AnyNamespace(name, read) ==
  IF name.ns /= None /\ name.ns = read
  THEN [err |-> "redundant_namespace", name |-> name]
  ELSE [err |-> "ok", name |-> IF name.ns /= None THEN name ELSE [name EXCEPT !.ns = read]]

\* _impl's namespace check: read is what *ns_ (or ns_->c_str()) yielded.
ImplResolve(name, read) ==
  IF name.ns /= None
  THEN [err |-> IF name.ns = read THEN "redundant_namespace" ELSE "invalid_namespace",
        name |-> name]
  ELSE [err |-> "ok", name |-> [name EXCEPT !.ns = read]]

ImplOutcome(lib, name_str, f, read) ==
  LET r == ImplResolve(parseName(name_str), read)
  IN IF r.err /= "ok" THEN Rejected(r.err)
     ELSE IF f.dispatch_key /= None /\ lib.dispatch_key_ /= None
     THEN Rejected("dispatch_key_conflict")
     ELSE Commit(registrations, <<>>,
                 <<ImplReq(r.name, EffectiveKey(f, lib))>>)

Library_impl(o, name_str, f) ==
  /\ Running
  /\ IsLibrary(o)
  /\ \E read \in Deref(owners[o].ns_) :
       IF read = Crash THEN Dies("impl", o, <<name_str, f>>)
       ELSE LET res == ImplOutcome(owners[o], name_str, f, read)
            IN Ends("impl", o, <<name_str, f>>, res, Holding(o, res))

\* Mutant: the check on ns_ comes before the assertion on the dispatch key.
FallbackOutcome_NamespaceFirst(lib, f) ==
  IF lib.kind_ /= Library_IMPL THEN Rejected("wrong_kind")
  ELSE IF lib.ns_ /= None THEN Rejected("fallback_namespace")
  ELSE IF EffectiveKey(f, lib) = None THEN Rejected("internal_assert")
  ELSE Commit(registrations, <<>>, <<FallbackReq(EffectiveKey(f, lib))>>)

\* Mutant: the check on ns_ is missing.
FallbackOutcome_AnyNamespace(lib, f) ==
  IF lib.kind_ /= Library_IMPL THEN Rejected("wrong_kind")
  ELSE IF EffectiveKey(f, lib) = None THEN Rejected("internal_assert")
  ELSE Commit(registrations, <<>>, <<FallbackReq(EffectiveKey(f, lib))>>)

FallbackOutcome(lib, f) ==
  IF lib.kind_ /= Library_IMPL THEN Rejected("wrong_kind")
  ELSE IF EffectiveKey(f, lib) = None THEN Rejected("internal_assert")
  ELSE IF lib.ns_ /= None THEN Rejected("fallback_namespace")
  ELSE Commit(registrations, <<>>, <<FallbackReq(EffectiveKey(f, lib))>>)

Library_fallback(o, f) ==
  /\ Running
  /\ IsLibrary(o)
  /\ LET res == FallbackOutcome(owners[o], f)
     IN Ends("fallback", o, <<f>>, res, Holding(o, res))

\* Mutant: the owner goes, its registrations stay.
Destroyed_Leaking(op, o) ==
  /\ owners' = [owners EXCEPT ![o] = NoOwner]
  /\ last' = Call(op, o, <<owners[o]>>, "ok")
  /\ rt' = Track(op, o, "ok")
  /\ UNCHANGED <<registrations, doubleRelease>>

\* The destructor of an owner: its registrars_ are destroyed, each handle
\* deregistering what it stands for.
Destroyed(op, o) ==
  /\ registrations' = ReleaseAll(registrations, owners[o].registrars_)
  /\ doubleRelease' = (doubleRelease \/ ReleasesTwice(registrations, owners[o].registrars_))
  /\ owners' = [owners EXCEPT ![o] = NoOwner]
  /\ last' = Call(op, o, <<owners[o]>>, "ok")
  /\ rt' = Track(op, o, "ok")

Library_dtor(o) ==
  /\ Running
  /\ owners[o].cls = "Library"
  /\ owners[o].state \in {"live", "moved"}
  /\ Destroyed("~Library", o)

\* Library(Library&&): the handles go to the new object.
Library_move(o, p) ==
  /\ Running
  /\ IsLibrary(o)
  /\ o /= p
  /\ owners[p].state = "none"
  /\ owners' = [owners EXCEPT ![p] = owners[o],
                              ![o] = [owners[o] EXCEPT !.state = "moved", !.registrars_ = <<>>]]
  /\ last' = Call("Library&&", p, <<o>>, "ok")
  /\ rt' = NoTrip
  /\ UNCHANGED <<registrations, doubleRelease>>

\* The call in progress is over: it returned, or it threw (TORCH_CHECK,
\* TORCH_INTERNAL_ASSERT or the Dispatcher) and its caller handled the
\* exception.  A process that died makes no further step.
Returns ==
  /\ last /= Idle
  /\ last.err /= Crash
  /\ last' = Idle
  /\ UNCHANGED <<registrations, doubleRelease, owners, rt>>

NextLibrary ==
  \/ \E o \in Owners, kind \in Kinds, ns \in LibraryNamespaces,
        k \in LibraryKeys : LibraryCtor(o, kind, ns, k)
  \/ \E o \in Owners : LibraryCtorCheck(o)
  \/ \E o \in Owners, schema \in ExplicitSchemas : Library_def(o, schema)
  \/ \E o \in Owners, f \in CppFunctions,
        nos \in { Left(parseName(n)) : n \in NameStrings } \cup { Right(s) : s \in ExplicitSchemas } :
          Library_def_kernel(o, nos, f)
  \/ \E o \in Owners, n \in NameStrings, f \in CppFunctions : Library_impl(o, n, f)
  \/ \E o \in Owners, f \in CppFunctions : Library_fallback(o, f)
  \/ \E o \in Owners : Library_dtor(o)
  \/ Returns

SpecLibrary == Init /\ [][NextLibrary]_vars


\* ------------------------------------------------------------- RegisterOperators
RegistrarObj(hs) ==
  [state |-> "live", cls |-> "RegisterOperators", kind_ |-> None, ns_ |-> None,
   dispatch_key_ |-> None, registrars_ |-> hs]

IsRegistrar(o) == owners[o].cls = "RegisterOperators" /\ owners[o].state = "live"

\* RegisterOperators::Options.  An Options without schemaOrName_ holds Left(NoName).
Options(schemaOrName, kernels, alias) ==
  [schemaOrName_ |-> schemaOrName, kernels |-> kernels, aliasAnalysisKind_ |-> alias]

\* Mutant: the scan does not stop at the first inferred schema.
FirstInferred_Last(kernels) ==
  LET having == { i \in 1..Len(kernels) : kernels[i].schema_ /= NullSchema }
  IN IF having = {} THEN NullSchema
     ELSE kernels[CHOOSE i \in having : \A j \in having : j <= i].schema_

\* The first kernel, in order, that has an inferred schema; NullSchema if none.
RECURSIVE FirstInferred(_)
FirstInferred(kernels) ==
  IF kernels = <<>> THEN NullSchema
  ELSE IF Head(kernels).schema_ /= NullSchema THEN Head(kernels).schema_
  ELSE FirstInferred(Tail(kernels))

\* Mutant: the check on kernels.size() is missing.
inferSchemaFromKernels_NoSizeCheck(opName, options) ==
  IF FirstInferred(options.kernels) = NullSchema
  THEN [err |-> "cannot_infer", schema |-> NullSchema]
  ELSE [err |-> "ok", schema |-> FirstInferred(options.kernels)]

inferSchemaFromKernels_(opName, options) ==
  IF Len(options.kernels) = 0 THEN [err |-> "no_kernel", schema |-> NullSchema]
  ELSE IF FirstInferred(options.kernels) = NullSchema
  THEN [err |-> "cannot_infer", schema |-> NullSchema]
  ELSE [err |-> "ok", schema |-> FirstInferred(options.kernels)]

\* The scan of checkNoDuplicateKernels_ from kernel i on, with the keys seen
\* so far and whether a catch-all kernel was seen.
RECURSIVE DuplicateScan(_, _, _, _)
DuplicateScan(kernels, i, dispatch_keys, has_catchall_kernel) ==
  IF i > Len(kernels) THEN "ok"
  ELSE IF kernels[i].dispatch_key /= None
  THEN IF kernels[i].dispatch_key \in dispatch_keys THEN "duplicate_dispatch_key"
       ELSE DuplicateScan(kernels, i + 1, dispatch_keys \cup {kernels[i].dispatch_key},
                          has_catchall_kernel)
  ELSE IF has_catchall_kernel THEN "duplicate_catchall"
       ELSE DuplicateScan(kernels, i + 1, dispatch_keys, TRUE)

\* Mutant: no check.
checkNoDuplicateKernels_Off(options) == "ok"

checkNoDuplicateKernels_(options) == DuplicateScan(options.kernels, 1, {}, FALSE)

\* registerOp_: the definition, then one implementation per kernel.
registerOp_(options) ==
  LET given == options.schemaOrName_.right
      schema == IF options.aliasAnalysisKind_ /= None
                THEN [given EXCEPT !.alias_kind = options.aliasAnalysisKind_]
                ELSE given
      op_name == operator_name(schema)
  IN Commit(registrations, <<>>,
            <<DefReq(schema)>> \o
            [i \in 1..Len(options.kernels) |->
               ImplReq(op_name, options.kernels[i].dispatch_key)])

\* The schema built from the name and the inferred schema's shape.
InferredFor(name, inferred_schema) ==
  Schema(name.ns, name.name, name.overload_name, inferred_schema.arguments,
         inferred_schema.returns, inferred_schema.is_vararg,
         inferred_schema.is_varret, None)

\* Mutant: the check on aliasAnalysisKind_ is missing.
checkSchemaAndRegisterOp_NoAliasCheck(options) ==
  IF options.schemaOrName_ = Left(NoName) THEN Rejected("no_schema_or_name")
  ELSE IF checkNoDuplicateKernels_(options) /= "ok"
  THEN Rejected(checkNoDuplicateKernels_(options))
  ELSE IF options.schemaOrName_.is_right THEN registerOp_(options)
  ELSE LET name == options.schemaOrName_.left
           inferred == inferSchemaFromKernels_(name, options)
       IN IF inferred.err /= "ok" THEN Rejected(inferred.err)
          ELSE registerOp_([options EXCEPT
                              !.schemaOrName_ = Right(InferredFor(name, inferred.schema))])

checkSchemaAndRegisterOp_(options) ==
  IF options.schemaOrName_ = Left(NoName) THEN Rejected("no_schema_or_name")
  ELSE IF options.schemaOrName_.is_right
  THEN IF checkNoDuplicateKernels_(options) /= "ok"
       THEN Rejected(checkNoDuplicateKernels_(options))
       ELSE registerOp_(options)
  ELSE LET name == options.schemaOrName_.left
           inferred == inferSchemaFromKernels_(name, options)
           resolved == [options EXCEPT
                          !.schemaOrName_ = Right(InferredFor(name, inferred.schema))]
       IN IF inferred.err /= "ok" THEN Rejected(inferred.err)
          ELSE IF checkNoDuplicateKernels_(resolved) /= "ok"
          THEN Rejected(checkNoDuplicateKernels_(resolved))
          ELSE IF options.aliasAnalysisKind_ = FROM_SCHEMA
          THEN Rejected("alias_from_schema_inferred")
          ELSE registerOp_(resolved)

RegisterOperators_ctor(o) ==
  /\ Running
  /\ owners[o].state = "none"
  /\ owners' = [owners EXCEPT ![o] = RegistrarObj(<<>>)]
  /\ last' = Call("RegisterOperators", o, <<>>, "ok")
  /\ rt' = NoTrip
  /\ UNCHANGED <<registrations, doubleRelease>>

RegisterOperators_op(o, options) ==
  /\ Running
  /\ IsRegistrar(o)
  /\ LET res == checkSchemaAndRegisterOp_(options)
     IN Ends("op", o, <<options>>, res, Holding(o, res))

RegisterOperators_dtor(o) ==
  /\ Running
  /\ IsRegistrar(o)
  /\ Destroyed("~RegisterOperators", o)

\* Mutant: the source keeps its handles, as after a copy.
MovedFrom_Copied(obj) == obj

\* What a move leaves in the source: an empty registrars_.
MovedFrom(obj) == [obj EXCEPT !.registrars_ = <<>>]

\* RegisterOperators(RegisterOperators&&): a new object p from o.
RegisterOperators_move(o, p) ==
  /\ Running
  /\ IsRegistrar(o)
  /\ owners[p].state = "none"
  /\ owners' = [owners EXCEPT ![p] = owners[o], ![o] = MovedFrom(owners[o])]
  /\ last' = Call("RegisterOperators&&", p, <<o>>, "ok")
  /\ rt' = NoTrip
  /\ UNCHANGED <<registrations, doubleRelease>>

\* operator=(RegisterOperators&&): p, which exists, takes o's handles; the
\* handles p held are destroyed.
RegisterOperators_move_assign(o, p) ==
  /\ Running
  /\ IsRegistrar(o)
  /\ IsRegistrar(p)
  /\ o /= p
  /\ registrations' = ReleaseAll(registrations, owners[p].registrars_)
  /\ doubleRelease' = (doubleRelease \/ ReleasesTwice(registrations, owners[p].registrars_))
  /\ owners' = [owners EXCEPT ![p] = owners[o], ![o] = MovedFrom(owners[o])]
  /\ last' = Call("operator=", p, <<o>>, "ok")
  /\ rt' = NoTrip

\* The operator names and schemas handed to RegisterOperators.
RegistrarNames == { OpName(ns, "add", "") : ns \in Namespaces }

RegistrarSchemas ==
  { InferredFor(n, IntToInt) : n \in RegistrarNames }

KernelLists ==
  UNION { [1..n -> Kernels] : n \in 0..MaxKernels }

OptionsGiven ==
  { Options(s, ks, a) :
      s \in {Left(NoName)} \cup { Left(n) : n \in RegistrarNames }
            \cup { Right(x) : x \in RegistrarSchemas },
      ks \in KernelLists,
      a \in {None, FROM_SCHEMA} }

NextRegistrar ==
  \/ \E o \in Owners : RegisterOperators_ctor(o)
  \/ \E o \in Owners, options \in OptionsGiven : RegisterOperators_op(o, options)
  \/ \E o \in Owners : RegisterOperators_dtor(o)
  \/ \E o, p \in Owners : RegisterOperators_move(o, p)
  \/ \E o, p \in Owners : RegisterOperators_move_assign(o, p)
  \/ Returns

SpecRegistrar == Init /\ [][NextRegistrar]_vars


\* Libraries and RegisterOperators side by side, moved and destroyed.
MovedSchema == Schema(None, "add", "", "int", "int", FALSE, FALSE, None)

MovedOptions ==
  { Options(Right([MovedSchema EXCEPT !.ns = "mylib"]), ks, None) :
      ks \in {<<>>, <<Kernel("CPU", IntToInt)>>} }

NextMove ==
  \/ \E o \in Owners, kind \in Kinds, ns \in LibraryNamespaces :
       LibraryCtor(o, kind, ns, None)
  \/ \E o \in Owners : LibraryCtorCheck(o)
  \/ \E o \in Owners : Library_def(o, MovedSchema)
  \/ \E o \in Owners : Library_impl(o, <<"add">>, Kernel("CPU", NullSchema))
  \/ \E o \in Owners : Library_fallback(o, Kernel("CPU", NullSchema))
  \/ \E o, p \in Owners : Library_move(o, p)
  \/ \E o \in Owners : Library_dtor(o)
  \/ \E o \in Owners : RegisterOperators_ctor(o)
  \/ \E o \in Owners, options \in MovedOptions : RegisterOperators_op(o, options)
  \/ \E o \in Owners : RegisterOperators_dtor(o)
  \/ \E o, p \in Owners : RegisterOperators_move(o, p)
  \/ \E o, p \in Owners : RegisterOperators_move_assign(o, p)
  \/ Returns

SpecMove == Init /\ [][NextMove]_vars

\* def(name_or_schema, f) of a fragment and op() of a RegisterOperators side
\* by side, with and without a schema given, with and without FROM_SCHEMA.
AliasSchemas ==
  { [MovedSchema EXCEPT !.alias_kind = a] : a \in {None, FROM_SCHEMA} }

AliasOptions ==
  { Options(s, ks, a) :
      s \in {Left(OpName("otherlib", "add", "")),
             Right([MovedSchema EXCEPT !.ns = "otherlib"])},
      ks \in UNION { [1..n -> {Kernel("CPU", IntToInt), Kernel(None, NullSchema)}] :
                       n \in 0..MaxKernels },
      a \in {None, CONSERVATIVE, FROM_SCHEMA} }

NextAlias ==
  \/ \E o \in Owners : LibraryCtor(o, Library_FRAGMENT, "mylib", None)
  \/ \E o \in Owners, f \in CppFunctions,
        nos \in {Left(OpName(None, "add", ""))} \cup { Right(x) : x \in AliasSchemas } :
          Library_def_kernel(o, nos, f)
  \/ \E o \in Owners : Library_dtor(o)
  \/ \E o \in Owners : RegisterOperators_ctor(o)
  \/ \E o \in Owners, options \in AliasOptions : RegisterOperators_op(o, options)
  \/ \E o \in Owners : RegisterOperators_dtor(o)
  \/ Returns

SpecAlias == Init /\ [][NextAlias]_vars

\* ------------------------------------------------------------- properties
Reg(h) == CHOOSE r \in registrations : r.h = h

Registered(h) == \E r \in registrations : r.h = h

DefsAndImpls(R) == { r \in R : r.what \in {"def", "impl"} }

\* C1: round trip.  After a successful def(schema) and then a successful
\* impl(name, kernel) in one Library, the Library holds exactly two handles
\* more than before, a definition and then an implementation, and the table
\* is the one before plus these two; after the Library is then destroyed, the
\* definitions and implementations in the table are those from before the
\* two calls (less those the Library itself held then).
C1_RoundTrip ==
  /\ rt.phase = 2 =>
       LET hs == owners[rt.owner].registrars_
           n == Len(rt.held)
       IN /\ Len(hs) = n + 2
          /\ SubSeq(hs, 1, n) = rt.held
          /\ owners[rt.owner].kind_ \in {Library_DEF, Library_FRAGMENT}
          /\ Registered(hs[n + 1]) /\ Reg(hs[n + 1]).what = "def"
          /\ Registered(hs[n + 2]) /\ Reg(hs[n + 2]).what = "impl"
          /\ Reg(hs[n + 2]).op = Reg(hs[n + 1]).op
          /\ registrations = rt.before \cup {Reg(hs[n + 1]), Reg(hs[n + 2])}
          /\ Cardinality(registrations) = Cardinality(rt.before) + 2
  /\ rt.phase = 3 =>
       /\ owners[rt.owner] = NoOwner
       /\ DefsAndImpls(registrations) =
            { r \in DefsAndImpls(rt.before) : r.h \notin SeqToSet(rt.held) }
       /\ (DefsAndImpls(rt.before) \cap { r \in rt.before : r.h \in SeqToSet(rt.held) } = {}
             => DefsAndImpls(registrations) = DefsAndImpls(rt.before))

\* The round trip is complete, around registrations of another owner.
C1_Witness ==
  /\ rt.phase = 3
  /\ DefsAndImpls(rt.before) /= {}
  /\ DefsAndImpls(registrations) = DefsAndImpls(rt.before)


\* Owner object obj holds the handle of the library registration of ns in R.
Reserves(R, obj, ns) ==
  \E r \in R : r.what = "library" /\ r.op.ns = ns /\ r.h \in SeqToSet(obj.registrars_)

\* A TORCH_LIBRARY object, under construction or constructed.
DefSession(obj) ==
  obj.cls = "Library" /\ obj.kind_ = Library_DEF /\ obj.state \in {"ctor", "live"}

LiveDef(obj) == DefSession(obj) /\ obj.state = "live"

\* At most one library registration, one holder and one live TORCH_LIBRARY
\* per namespace, and every live TORCH_LIBRARY holds its namespace's.
OneDefPerNamespace(R, own) ==
  /\ \A r1, r2 \in R :
       r1.what = "library" /\ r2.what = "library" /\ r1.op.ns = r2.op.ns => r1 = r2
  /\ \A o, p \in Owners, r \in R :
       r.what = "library" /\ r.h \in SeqToSet(own[o].registrars_)
         /\ r.h \in SeqToSet(own[p].registrars_) => o = p
  /\ \A o \in Owners : LiveDef(own[o]) => Reserves(R, own[o], own[o].ns_)
  /\ \A o, p \in Owners :
       LiveDef(own[o]) /\ LiveDef(own[p]) /\ own[o].ns_ = own[p].ns_ => o = p

\* The call in progress after this step is Library(kind, ns, k).
Constructing(kind) == last'.op = "Library" /\ last'.args[1] = kind

\* C2: at most one live TORCH_LIBRARY holds the reservation of a namespace.
\* Constructing a TORCH_LIBRARY for a namespace a live one reserves fails with
\* the Dispatcher's conflict error and changes neither the table nor any
\* owner; a live TORCH_LIBRARY keeps its reservation through every step but
\* its own destruction, which ends it; a TORCH_LIBRARY_FRAGMENT for a
\* namespace is constructed whether or not the namespace is reserved, and
\* registers nothing.
C2_OneDefinitionBlock ==
  [][ /\ OneDefPerNamespace(registrations', owners')
      /\ (Constructing(Library_DEF)
            /\ (\E p \in Owners : LiveDef(owners[p])
                                   /\ owners[p].ns_ = NormNs(last'.args[2])))
           => /\ last'.err = "conflict"
              /\ registrations' = registrations
              /\ owners' = owners
      /\ \A p \in Owners :
           LiveDef(owners[p]) =>
             \/ /\ LiveDef(owners'[p])
                /\ owners'[p].ns_ = owners[p].ns_
                /\ Reserves(registrations', owners'[p], owners[p].ns_)
             \/ /\ last'.op = "~Library" /\ last'.owner = p
                /\ owners'[p] = NoOwner
                /\ ~\E r \in registrations' :
                      r.what = "library" /\ r.op.ns = owners[p].ns_
      /\ (Constructing(Library_FRAGMENT)
            /\ NormNs(last'.args[2]) /= None /\ NormKey(last'.args[3]) = None)
           => /\ last'.err = "ok"
              /\ owners'[last'.owner] =
                   LibraryObj("live", Library_FRAGMENT, last'.args[2], None, <<>>)
              /\ registrations' = registrations
    ]_vars

\* A second TORCH_LIBRARY for the namespace of a live one, which holds a
\* registration besides, was refused.
C2_Witness ==
  /\ last.op = "Library" /\ last.args[1] = Library_DEF /\ last.err = "conflict"
  /\ \E p \in Owners :
       /\ LiveDef(owners[p]) /\ owners[p].ns_ = last.args[2]
       /\ Len(owners[p].registrars_) >= 2
       /\ p /= last.owner

\* The arguments of a TORCH_LIBRARY construction that passes its own checks.
ValidDef(args) ==
  args[1] = Library_DEF /\ NormNs(args[2]) /= None /\ NormKey(args[3]) = None

\* C3: two constructions of a TORCH_LIBRARY for one namespace, each of which
\* would pass the constructor's checks, interleaved step by step (the
\* registerLibrary call, then the checks): the one that calls
\* registerLibrary while the namespace is free gets the reservation and
\* completes; the one that calls it while the other is under construction or
\* constructed fails there and then with a conflict, leaving nothing behind;
\* never are two such objects under construction or constructed at once.
C3_ExactlyOneWins ==
  [][ /\ \A o, p \in Owners :
           DefSession(owners'[o]) /\ DefSession(owners'[p])
             /\ owners'[o].ns_ /= None /\ owners'[o].ns_ = owners'[p].ns_ => o = p
      /\ (last'.op = "Library" /\ ValidDef(last'.args)) =>
           IF \E r \in registrations : r.what = "library" /\ r.op.ns = last'.args[2]
           THEN /\ last'.err = "conflict"
                /\ owners' = owners
                /\ owners'[last'.owner] = NoOwner
                /\ registrations' = registrations
           ELSE /\ last'.err = "ok"
                /\ owners'[last'.owner].state = "ctor"
                /\ Reserves(registrations', owners'[last'.owner], last'.args[2])
      /\ \A p \in Owners :
           (owners[p].state = "ctor" /\ owners[p].ns_ /= None
              /\ owners[p].dispatch_key_ = None) =>
             IF last'.op = "Library:" /\ last'.owner = p
             THEN /\ last'.err = "ok"
                  /\ LiveDef(owners'[p])
                  /\ Reserves(registrations', owners'[p], owners[p].ns_)
             ELSE /\ owners'[p] = owners[p]
                  /\ Reserves(registrations', owners'[p], owners[p].ns_)
    ]_vars

\* The second construction failed while the first was between its
\* registerLibrary call and its checks.
C3_Witness ==
  /\ last.op = "Library" /\ ValidDef(last.args) /\ last.err = "conflict"
  /\ \E p \in Owners :
       /\ p /= last.owner
       /\ owners[p].state = "ctor"
       /\ owners[p].ns_ = last.args[2] /\ owners[p].dispatch_key_ = None


\* -------------------------------------------- RegisterOperators::op
RegIn(R, h) == CHOOSE r \in R : r.h = h

\* The handles the step appended to o's registrars_.
Added(o) ==
  SubSeq(owners'[o].registrars_, Len(owners[o].registrars_) + 1,
         Len(owners'[o].registrars_))

Appends(o) ==
  /\ Len(owners'[o].registrars_) >= Len(owners[o].registrars_)
  /\ SubSeq(owners'[o].registrars_, 1, Len(owners[o].registrars_)) = owners[o].registrars_
  /\ \A p \in Owners \ {o} : owners'[p] = owners[p]

NothingCommitted == registrations' = registrations /\ owners' = owners

\* Two kernels with one dispatch key, or two without a dispatch key.
HasDuplicateKernels(ks) ==
  \E i, j \in 1..Len(ks) : i < j /\ ks[i].dispatch_key = ks[j].dispatch_key

NameOnly(options) ==
  ~options.schemaOrName_.is_right /\ options.schemaOrName_.left /= NoName

Inferable(ks) == \E i \in 1..Len(ks) : ks[i].schema_ /= NullSchema

Resolvable(options) ==
  options.schemaOrName_.is_right \/ (NameOnly(options) /\ Inferable(options.kernels))

ResolvedName(options) ==
  IF options.schemaOrName_.is_right THEN operator_name(options.schemaOrName_.right)
  ELSE options.schemaOrName_.left

\* The Dispatcher holds nothing that a commit of options would collide with.
Fresh(options) ==
  ~\E r \in registrations :
     /\ r.op = ResolvedName(options)
     /\ \/ r.what = "def"
        \/ r.what = "impl" /\ \E i \in 1..Len(options.kernels) :
                                 options.kernels[i].dispatch_key = r.key

\* The step appended to o: a definition of name, then one implementation of
\* name per kernel under the kernel's dispatch key, and the table grew by
\* exactly these.
CommittedOp(o, name, ks) ==
  LET new == Added(o)
  IN /\ Len(new) = 1 + Len(ks)
     /\ \A i \in 1..Len(new) : \E r \in registrations' \ registrations : r.h = new[i]
     /\ \A i, j \in 1..Len(new) : new[i] = new[j] => i = j
     /\ registrations' = registrations \cup { RegIn(registrations', new[i]) : i \in 1..Len(new) }
     /\ RegIn(registrations', new[1]).what = "def"
     /\ RegIn(registrations', new[1]).op = name
     /\ \A i \in 1..Len(ks) :
          /\ RegIn(registrations', new[i + 1]).what = "impl"
          /\ RegIn(registrations', new[i + 1]).op = name
          /\ RegIn(registrations', new[i + 1]).key = ks[i].dispatch_key

\* C4: an op() call whose kernels have pairwise distinct dispatch keys and at
\* most one kernel without a key succeeds only with a schema given or
\* inferable, and then appends exactly one definition handle and one
\* implementation handle per kernel, each implementation registered for the
\* resolved operator name under its kernel's key; it does succeed when,
\* besides, the Dispatcher holds no colliding registration and
\* FROM_SCHEMA is not asked for an inferred schema.  With two kernels of one
\* key, or two without a key, the call fails with an error of its own checks
\* (the duplicate error when the schema is given or inferable) and neither
\* the table nor any registrars_ changes.
C4_DistinctKeysCommit ==
  [][ last'.op = "op" =>
        LET options == last'.args[1]
            o == last'.owner
            ks == last'.args[1].kernels
        IN /\ Appends(o)
           /\ HasDuplicateKernels(ks) =>
                /\ last'.err \notin {"ok", "conflict"}
                /\ Resolvable(options) =>
                     last'.err \in {"duplicate_dispatch_key", "duplicate_catchall"}
                /\ NothingCommitted
           /\ last'.err = "ok" =>
                /\ ~HasDuplicateKernels(ks)
                /\ Resolvable(options)
                /\ CommittedOp(o, ResolvedName(options), ks)
           /\ ( /\ ~HasDuplicateKernels(ks)
                /\ Resolvable(options)
                /\ ~(NameOnly(options) /\ options.aliasAnalysisKind_ = FROM_SCHEMA)
                /\ Fresh(options) )
                => last'.err = "ok"
    ]_vars

\* Two kernels under two different dispatch keys were committed.
C4_Witness ==
  /\ last.op = "op" /\ last.err = "ok"
  /\ Len(last.args[1].kernels) = 2
  /\ last.args[1].kernels[1].dispatch_key /= None
  /\ last.args[1].kernels[2].dispatch_key /= None
  /\ Len(owners[last.owner].registrars_) = 3

\* C5 as stated: an op() call with no kernel fails with the "no kernel
\* specified" error and commits nothing, whether a name or a schema is given.
C5_NoKernelAlwaysFails ==
  [][ (last'.op = "op" /\ last'.args[1].kernels = <<>>
         /\ last'.args[1].schemaOrName_ /= Left(NoName))
        => last'.err = "no_kernel" /\ NothingCommitted
    ]_vars

\* C5: an op() call with no kernel and only an operator name fails with the
\* "no kernel specified" error and commits nothing; with no kernel and a
\* schema it never raises that error: it registers the definition alone (one
\* handle appended, no implementation), unless the Dispatcher refuses the
\* definition because the operator is already defined.
C5_NoKernel ==
  [][ (last'.op = "op" /\ last'.args[1].kernels = <<>>) =>
        LET options == last'.args[1]
            o == last'.owner
        IN /\ NameOnly(options) => last'.err = "no_kernel" /\ NothingCommitted
           /\ options.schemaOrName_.is_right =>
                IF \E r \in registrations :
                     r.what = "def" /\ r.op = ResolvedName(options)
                THEN last'.err = "conflict" /\ NothingCommitted
                ELSE /\ last'.err = "ok"
                     /\ Appends(o)
                     /\ CommittedOp(o, ResolvedName(options), <<>>)
    ]_vars

\* A schema with no kernel was committed.
C5_Witness ==
  /\ last.op = "op" /\ last.err = "ok"
  /\ last.args[1].kernels = <<>>
  /\ last.args[1].schemaOrName_.is_right
  /\ Len(owners[last.owner].registrars_) = 1
  /\ \E r \in registrations : r.what = "def" /\ r.h = owners[last.owner].registrars_[1]

\* The argument/return shape of a schema.
Shape(schema) ==
  <<schema.arguments, schema.returns, schema.is_vararg, schema.is_varret>>

\* C6: an op() call given only an operator name that succeeds has registered
\* a definition of that name whose shape is that of the first kernel, in list
\* order, with an inferred schema, whatever the later kernels' schemas are;
\* it succeeds whenever some kernel has one, the kernels pass the duplicate
\* check, FROM_SCHEMA is not asked for and the Dispatcher holds no colliding
\* registration.  When no kernel has an inferred schema the call fails with
\* the cannot-infer error and commits nothing.
C6_FirstInferredSchema ==
  [][ (last'.op = "op" /\ NameOnly(last'.args[1])) =>
        LET options == last'.args[1]
            o == last'.owner
            ks == last'.args[1].kernels
            name == last'.args[1].schemaOrName_.left
        IN /\ last'.err = "ok" =>
                /\ Appends(o)
                /\ Len(Added(o)) >= 1
                /\ LET def == RegIn(registrations', Added(o)[1])
                   IN /\ def.what = "def"
                      /\ def.op = name
                      /\ operator_name(def.schema) = name
                      /\ \E i \in 1..Len(ks) :
                           /\ ks[i].schema_ /= NullSchema
                           /\ \A j \in 1..(i - 1) : ks[j].schema_ = NullSchema
                           /\ Shape(def.schema) = Shape(ks[i].schema_)
           /\ ( /\ Inferable(ks)
                /\ ~HasDuplicateKernels(ks)
                /\ options.aliasAnalysisKind_ /= FROM_SCHEMA
                /\ Fresh(options) )
                => last'.err = "ok"
           /\ ~Inferable(ks) =>
                /\ last'.err \in {"no_kernel", "cannot_infer"}
                /\ (ks /= <<>> => last'.err = "cannot_infer")
                /\ NothingCommitted
    ]_vars

\* A name with two kernels of different inferred schemas was committed.
C6_Witness ==
  /\ last.op = "op" /\ last.err = "ok"
  /\ NameOnly(last.args[1])
  /\ Len(last.args[1].kernels) = 2
  /\ last.args[1].kernels[1].schema_ /= NullSchema
  /\ last.args[1].kernels[2].schema_ /= NullSchema
  /\ last.args[1].kernels[1].schema_ /= last.args[1].kernels[2].schema_


\* ------------------------------------------------ Library::_impl, _fallback
\* C7: impl(name, f) in a Library of a concrete namespace, with a name whose
\* explicit namespace is another one, fails with the "Invalid explicit
\* namespace ... Move this definition" error, and neither the table nor any
\* registrars_ changes.
C7_ImplNamespaceMismatch ==
  [][ (last'.op = "impl"
         /\ owners[last'.owner].ns_ /= None
         /\ Len(last'.args[1]) >= 2 /\ last'.args[1][2] = "::"
         /\ last'.args[1][1] /= owners[last'.owner].ns_)
        => last'.err = "invalid_namespace" /\ NothingCommitted
    ]_vars

\* impl("otherlib::add", f) failed in a Library of mylib that holds a handle.
C7_Witness ==
  /\ last.op = "impl" /\ last.err = "invalid_namespace"
  /\ owners[last.owner].ns_ = "mylib"
  /\ last.args[1][1] = "otherlib"
  /\ owners[last.owner].registrars_ /= <<>>

\* C8: fallback(f) in a TORCH_LIBRARY_IMPL of the wildcard namespace, with a
\* dispatch key on f or on the Library, succeeds: it adds one fallback
\* registration, which carries that dispatch key and no operator name, and
\* appends its handle alone.  In a TORCH_LIBRARY or a fragment it fails with
\* the wrong-kind error, in a TORCH_LIBRARY_IMPL of a concrete namespace it
\* fails too, and in both cases neither the table nor any registrars_
\* changes.
C8_Fallback ==
  [][ last'.op = "fallback" =>
        LET o == last'.owner
            lib == owners[last'.owner]
            f == last'.args[1]
            key == IF f.dispatch_key /= None THEN f.dispatch_key ELSE lib.dispatch_key_
        IN /\ (lib.kind_ = Library_IMPL /\ lib.ns_ = None /\ key /= None) =>
                /\ last'.err = "ok"
                /\ Appends(o)
                /\ Len(Added(o)) = 1
                /\ LET r == RegIn(registrations', Added(o)[1])
                   IN /\ r \notin registrations
                      /\ registrations' = registrations \cup {r}
                      /\ r.what = "fallback" /\ r.key = key /\ r.op = NoName
           /\ lib.kind_ \in {Library_DEF, Library_FRAGMENT} =>
                last'.err = "wrong_kind" /\ NothingCommitted
           /\ (lib.kind_ = Library_IMPL /\ lib.ns_ /= None) =>
                /\ last'.err \in {"fallback_namespace", "internal_assert"}
                /\ (key /= None => last'.err = "fallback_namespace")
                /\ NothingCommitted
    ]_vars

\* A fallback was registered under the Library's own dispatch key.
C8_Witness ==
  /\ last.op = "fallback" /\ last.err = "ok"
  /\ last.args[1].dispatch_key = None
  /\ owners[last.owner].kind_ = Library_IMPL /\ owners[last.owner].ns_ = None
  /\ \E r \in registrations :
       /\ r.what = "fallback" /\ r.key = owners[last.owner].dispatch_key_
       /\ r.h = owners[last.owner].registrars_[Len(owners[last.owner].registrars_)]

\* ------------------------------------------------------- all or nothing
\* C10 as stated: a def, impl or fallback call of a Library, or an op() call
\* of a RegisterOperators, that fails leaves the table and every registrars_
\* as they were before the call.
C10_AllOrNothing ==
  [][ (last'.op \in {"def", "def_kernel", "impl", "fallback", "op"}
         /\ last'.err \notin {"ok", Crash})
        => NothingCommitted
    ]_vars

\* def(name, f) failed on registerImpl's conflict, and the definition it
\* registered first is in the table, its handle in registrars_.
C10_Witness ==
  /\ last.op = "def_kernel" /\ last.err = "conflict"
  /\ owners[last.owner].registrars_ /= <<>>
  /\ \E r \in registrations :
       /\ r.what = "def"
       /\ r.h = owners[last.owner].registrars_[Len(owners[last.owner].registrars_)]
       /\ \E i \in registrations : i.what = "impl" /\ i.op = r.op
                                     /\ i.h \notin SeqToSet(owners[last.owner].registrars_)


\* ------------------------------------------------- moves and destructors
\* Every registration in R is held by exactly one owner, at one position, and
\* every handle held stands for a registration in R.
HeldOnce(R, own) ==
  /\ \A r \in R :
       Cardinality({ <<o, i>> \in Owners \X Handles :
                       i <= Len(own[o].registrars_) /\ own[o].registrars_[i] = r.h }) = 1
  /\ \A o \in Owners : \A i \in 1..Len(own[o].registrars_) :
       \E r \in R : r.h = own[o].registrars_[i]

\* C9: whatever the moves and destructions, every registration is at all
\* times held by exactly one owner, once, and no destructor finds a handle
\* already released.  A move construction gives the new owner exactly the
\* handles of the source, in order, and leaves the table alone; a move
\* assignment does the same after releasing exactly what the destination
\* held; the source holds no handle afterwards.  A destructor removes from
\* the table exactly the registrations of the handles its owner holds, one
\* per handle, so the destructor of a moved-from owner removes nothing.
C9_ReleasedExactlyOnce ==
  [][ /\ HeldOnce(registrations', owners')
      /\ doubleRelease' = FALSE
      /\ last'.op \in {"Library&&", "RegisterOperators&&", "operator="} =>
           LET src == last'.args[1]
               dst == last'.owner
           IN /\ owners'[dst].registrars_ = owners[src].registrars_
              /\ owners'[src].registrars_ = <<>>
              /\ \A q \in Owners \ {src, dst} : owners'[q] = owners[q]
              /\ registrations' =
                   IF last'.op = "operator="
                   THEN { r \in registrations : r.h \notin SeqToSet(owners[dst].registrars_) }
                   ELSE registrations
      /\ last'.op \in {"~Library", "~RegisterOperators"} =>
           LET o == last'.owner
           IN /\ registrations' =
                   { r \in registrations : r.h \notin SeqToSet(owners[o].registrars_) }
              /\ Cardinality(registrations) - Cardinality(registrations') =
                   Len(owners[o].registrars_)
              /\ owners[o].registrars_ = <<>> => registrations' = registrations
              /\ owners'[o] = NoOwner
              /\ \A q \in Owners \ {o} : owners'[q] = owners[q]
    ]_vars

\* A moved-from Library was destroyed while the Library it was moved to holds
\* its two registrations.
C9_Witness ==
  /\ last.op = "~Library"
  /\ last.args[1].state = "moved"
  /\ \E p \in Owners :
       /\ owners[p].cls = "Library"
       /\ Len(owners[p].registrars_) >= 2
       /\ \A i \in 1..Len(owners[p].registrars_) : Registered(owners[p].registrars_[i])


\* ------------------------------------------------------ registration order
\* The table without the handles' identities.
Content(R) == { [r EXCEPT !.h = 0] : r \in R }

\* The step added exactly one registration, with the content of req.
AddsOnly(req) ==
  /\ Cardinality(registrations') = Cardinality(registrations) + 1
  /\ registrations \subseteq registrations'
  /\ Content(registrations' \ registrations) = {req}

\* How def(schema) in o and impl(name_str, f) in p would end, called now.
DefErr(o, schema) == DefOutcome(owners[o], schema).err

ImplErr(p, name_str, f) == ImplOutcome(owners[p], name_str, f, owners[p].ns_).err

\* C11: a def(schema) in a TORCH_LIBRARY or fragment and an impl(name, f) in
\* a separate TORCH_LIBRARY_IMPL of a concrete namespace commute.  A
\* successful def adds to the table exactly the definition of the schema under
\* the Library's namespace, a successful impl exactly the implementation of
\* the name under the Library's namespace and the effective dispatch key,
\* whatever else the table holds; and a successful def changes the outcome of
\* no impl call of another Library, a successful impl the outcome of no def
\* call of another Library.  So either order succeeds when the other does,
\* and both end in the table of before plus the same two registrations.
C11_OrderIndependent ==
  [][ /\ (last'.op = "def" /\ last'.err = "ok") =>
           /\ AddsOnly(DefReq([last'.args[1] EXCEPT !.ns = owners[last'.owner].ns_]))
           /\ \A p \in Owners \ {last'.owner}, n \in NameStrings, f \in CppFunctions :
                (IsLibrary(p) /\ owners[p].ns_ /= None /\ Unused(registrations') /= {})
                  => ImplErr(p, n, f) = ImplErr(p, n, f)'
      /\ (last'.op = "impl" /\ last'.err = "ok" /\ owners[last'.owner].ns_ /= None) =>
           /\ AddsOnly(ImplReq([parseName(last'.args[1]) EXCEPT
                                  !.ns = owners[last'.owner].ns_],
                               IF last'.args[2].dispatch_key /= None
                               THEN last'.args[2].dispatch_key
                               ELSE owners[last'.owner].dispatch_key_))
           /\ \A o \in Owners \ {last'.owner}, schema \in ExplicitSchemas :
                (IsLibrary(o) /\ Unused(registrations') /= {})
                  => DefErr(o, schema) = DefErr(o, schema)'
    ]_vars

\* def succeeded for an operator that a TORCH_LIBRARY_IMPL had implemented
\* before: the order bind, then define.
C11_Witness ==
  /\ last.op = "def" /\ last.err = "ok"
  /\ \E d, i \in registrations, p \in Owners :
       /\ d.what = "def" /\ d.h \in SeqToSet(owners[last.owner].registrars_)
       /\ i.what = "impl" /\ i.op = d.op
       /\ p /= last.owner /\ owners[p].kind_ = Library_IMPL
       /\ i.h \in SeqToSet(owners[p].registrars_)


\* ------------------------------------------------------------ destruction
\* The registrations in R that owner object obj holds the handles of.
HeldBy(R, obj) == { r \in R : r.h \in SeqToSet(obj.registrars_) }

\* C12: an owner holds the handles of exactly the registrations it made or
\* was moved: every registration a step adds is held afterwards by the owner
\* that made the call, also when the call failed half way, and a step changes
\* what another owner holds only by a move.  The destructor of a Library or
\* a RegisterOperators, whenever it runs, removes from the table exactly the
\* registrations its owner holds (reservation, definitions, implementations,
\* fallbacks) and leaves those held by every other owner in the table and in
\* that owner's registrars_; a constructor that throws after registerLibrary
\* removes the reservation in the same way.
C12_DestructionUndoes ==
  [][ /\ \A r \in registrations' \ registrations :
           r \in HeldBy(registrations', owners'[last'.owner])
      /\ last'.op \notin {"Library&&", "RegisterOperators&&", "operator="} =>
           \A q \in Owners \ {last'.owner} : owners'[q] = owners[q]
      /\ (last'.op \in {"~Library", "~RegisterOperators"}
           \/ (last'.op = "Library:" /\ last'.err /= "ok")) =>
           LET o == last'.owner
           IN /\ registrations' = registrations \ HeldBy(registrations, owners[o])
              /\ Cardinality(HeldBy(registrations, owners[o])) = Len(owners[o].registrars_)
              /\ owners'[o] = NoOwner
              /\ \A q \in Owners \ {o} :
                   /\ HeldBy(registrations', owners'[q]) = HeldBy(registrations, owners[q])
                   /\ Cardinality(HeldBy(registrations', owners'[q])) =
                        Len(owners'[q].registrars_)
    ]_vars

\* A RegisterOperators that held one definition and nothing else was
\* destroyed; the definition is gone and a Library's implementation is in
\* place.
C12_Witness ==
  /\ last.op = "~RegisterOperators"
  /\ Len(last.args[1].registrars_) = 1
  /\ \E p \in Owners, i \in registrations :
       /\ owners[p].cls = "Library"
       /\ i.what = "impl" /\ i.h \in SeqToSet(owners[p].registrars_)
       /\ ~\E d \in registrations : d.what = "def"


\* ------------------------------------------------------- namespaces
\* C13: def(schema) succeeds only in a TORCH_LIBRARY or a fragment and only
\* for a schema without a namespace; it then adds exactly the definition of
\* the schema under the Library's namespace and appends its handle, and it
\* does succeed unless the operator is already defined.  The name handed
\* back through out_name has that namespace too: the implementation that
\* def(name_or_schema, f) registers next is registered for the operator just
\* defined.  In a TORCH_LIBRARY_IMPL the call fails with the wrong-kind error,
\* and with a namespace in the schema, equal to the Library's or not, with the
\* redundant or the invalid namespace error; the table and every registrars_
\* are then unchanged.
C13_DefNamespace ==
  [][ /\ last'.op = "def" =>
           LET o == last'.owner
               lib == owners[last'.owner]
               schema == last'.args[1]
               named == [last'.args[1] EXCEPT !.ns = owners[last'.owner].ns_]
           IN /\ last'.err = "ok" =>
                   /\ lib.kind_ \in {Library_DEF, Library_FRAGMENT}
                   /\ schema.ns = None /\ lib.ns_ /= None
                   /\ AddsOnly(DefReq(named))
                   /\ Appends(o) /\ Len(Added(o)) = 1
                   /\ RegIn(registrations', Added(o)[1]).op.ns = lib.ns_
              /\ ( /\ lib.kind_ \in {Library_DEF, Library_FRAGMENT}
                   /\ schema.ns = None
                   /\ ~\E r \in registrations :
                         r.what = "def" /\ r.op = operator_name(named) )
                   => last'.err = "ok"
              /\ lib.kind_ = Library_IMPL =>
                   last'.err = "wrong_kind" /\ NothingCommitted
              /\ (lib.kind_ /= Library_IMPL /\ schema.ns /= None) =>
                   /\ last'.err = IF schema.ns = lib.ns_ THEN "redundant_namespace"
                                  ELSE "invalid_namespace"
                   /\ NothingCommitted
      /\ (last'.op = "def_kernel" /\ Len(Added(last'.owner)) = 2) =>
           LET new == Added(last'.owner)
           IN /\ RegIn(registrations', new[1]).what = "def"
              /\ RegIn(registrations', new[1]).op.ns = owners[last'.owner].ns_
              /\ RegIn(registrations', new[2]).what = "impl"
              /\ RegIn(registrations', new[2]).op = RegIn(registrations', new[1]).op
    ]_vars

\* def of a schema that names the Library's own namespace failed.
C13_Witness ==
  /\ last.op = "def" /\ last.err = "redundant_namespace"
  /\ last.args[1].ns = owners[last.owner].ns_
  /\ owners[last.owner].kind_ = Library_DEF

\* The name string carries a namespace.
Qualified(name_str) == Len(name_str) >= 2 /\ name_str[2] = "::"

\* impl's call would pass the dispatch key check and the Dispatcher.
ImplAcceptable(lib, name_str, f) ==
  /\ ~(f.dispatch_key /= None /\ lib.dispatch_key_ /= None)
  /\ ~\E r \in registrations :
        /\ r.what = "impl"
        /\ r.op = [parseName(name_str) EXCEPT !.ns = lib.ns_]
        /\ r.key = IF f.dispatch_key /= None THEN f.dispatch_key ELSE lib.dispatch_key_

\* C14 as stated: impl of a name whose namespace is the Library's own is
\* accepted and registered under that namespace.
C14_EqualNamespaceAccepted ==
  [][ (last'.op = "impl"
         /\ owners[last'.owner].ns_ /= None
         /\ Qualified(last'.args[1])
         /\ last'.args[1][1] = owners[last'.owner].ns_
         /\ ImplAcceptable(owners[last'.owner], last'.args[1], last'.args[2]))
        => last'.err = "ok"
    ]_vars

\* C14: in a Library of a concrete namespace, impl of a name without a
\* namespace registers the implementation under the Library's namespace
\* (when the dispatch key check and the Dispatcher let it pass); impl of a
\* name with a namespace fails and registers nothing, with the redundant
\* namespace error when the namespace is the Library's own and the invalid
\* namespace error when it is another.
C14_ImplNamespace ==
  [][ (last'.op = "impl" /\ owners[last'.owner].ns_ /= None) =>
        LET o == last'.owner
            lib == owners[last'.owner]
            name_str == last'.args[1]
            f == last'.args[2]
        IN /\ Qualified(name_str) =>
                /\ last'.err = IF name_str[1] = lib.ns_ THEN "redundant_namespace"
                               ELSE "invalid_namespace"
                /\ NothingCommitted
           /\ (~Qualified(name_str) /\ ImplAcceptable(lib, name_str, f)) =>
                /\ last'.err = "ok"
                /\ Appends(o) /\ Len(Added(o)) = 1
                /\ RegIn(registrations', Added(o)[1]).what = "impl"
                /\ RegIn(registrations', Added(o)[1]).op.ns = lib.ns_
           /\ last'.err = "ok" => ~Qualified(name_str)
    ]_vars

\* impl of a name that carries the Library's own namespace failed.
C14_Witness ==
  /\ last.op = "impl" /\ last.err = "redundant_namespace"
  /\ Qualified(last.args[1])
  /\ last.args[1][1] = owners[last.owner].ns_


\* ------------------------------------------------------- dispatch keys
\* C15 as stated: an impl or fallback call whose kernel has a dispatch key,
\* in a Library that has a dispatch key, fails and registers nothing.
C15_KeysExclusive ==
  [][ (last'.op \in {"impl", "fallback"}
         /\ last'.args[Len(last'.args)].dispatch_key /= None
         /\ owners[last'.owner].dispatch_key_ /= None
         /\ last'.err /= Crash)
        => last'.err /= "ok" /\ NothingCommitted
    ]_vars

\* fallback(f) with a dispatch key on f succeeded in a Library that has
\* another dispatch key, and the fallback is registered under f's.
C15_Witness ==
  /\ last.op = "fallback" /\ last.err = "ok"
  /\ last.args[1].dispatch_key /= None
  /\ owners[last.owner].dispatch_key_ /= None
  /\ last.args[1].dispatch_key /= owners[last.owner].dispatch_key_
  /\ \E r \in registrations :
       /\ r.what = "fallback" /\ r.key = last.args[1].dispatch_key
       /\ r.h = owners[last.owner].registrars_[Len(owners[last.owner].registrars_)]

\* C16 as stated: fallback(f) in a TORCH_LIBRARY_IMPL of a concrete namespace
\* fails with the TORCH_CHECK on the namespace, whatever the dispatch keys of
\* f and of the Library.
C16_NamespaceErrorAlways ==
  [][ (last'.op = "fallback"
         /\ owners[last'.owner].kind_ = Library_IMPL
         /\ owners[last'.owner].ns_ /= None)
        => last'.err = "fallback_namespace"
    ]_vars

\* C16: fallback(f) in a TORCH_LIBRARY_IMPL of a concrete namespace always
\* fails and registers nothing: with the TORCH_CHECK on the namespace when f
\* or the Library has a dispatch key, with the internal assert on the
\* dispatch key when neither has one.
C16_FallbackConcreteNamespace ==
  [][ (last'.op = "fallback"
         /\ owners[last'.owner].kind_ = Library_IMPL
         /\ owners[last'.owner].ns_ /= None)
        => /\ last'.err =
                IF last'.args[1].dispatch_key = None
                     /\ owners[last'.owner].dispatch_key_ = None
                THEN "internal_assert" ELSE "fallback_namespace"
           /\ NothingCommitted
    ]_vars

\* fallback(f) without any dispatch key, in a TORCH_LIBRARY_IMPL of a concrete
\* namespace, failed on the internal assert.
C16_Witness ==
  /\ last.op = "fallback" /\ last.err = "internal_assert"
  /\ owners[last.owner].kind_ = Library_IMPL
  /\ owners[last.owner].ns_ /= None
  /\ owners[last.owner].dispatch_key_ = None
  /\ last.args[1].dispatch_key = None


\* ------------------------------------------------- construction checks
\* C17 as stated: every library registration in the table belongs to a
\* TORCH_LIBRARY whose arguments pass the constructor's checks (a namespace
\* other than the wildcard, no dispatch key) and is the registration of that
\* namespace; no construction dies on the way.
C17_ReservedOnlyIfValid ==
  /\ \A r \in registrations :
       r.what = "library" =>
         \E o \in Owners :
           /\ r.h \in SeqToSet(owners[o].registrars_)
           /\ owners[o].ns_ /= None /\ owners[o].dispatch_key_ = None
           /\ r.op.ns = owners[o].ns_
  /\ ~(last.op = "Library" /\ last.err = Crash)

\* A TORCH_LIBRARY construction with a dispatch key holds the reservation of
\* its namespace, its checks still to come, and a construction without any
\* fault was refused the namespace meanwhile.
C17_Witness ==
  /\ last.op = "Library" /\ ValidDef(last.args) /\ last.err = "conflict"
  /\ \E p \in Owners :
       /\ p /= last.owner
       /\ owners[p].state = "ctor"
       /\ owners[p].dispatch_key_ /= None
       /\ owners[p].ns_ = last.args[2]
       /\ Reserves(registrations, owners[p], last.args[2])

\* C18 as stated: every implementation in the table is registered for an
\* operator name with a namespace, and no impl call reads the namespace of a
\* Library that has none.
C18_ImplNamespacePresent ==
  /\ \A r \in registrations : r.what = "impl" => r.op.ns \in Namespaces
  /\ ~(last.op = "impl" /\ last.err = Crash)
  /\ ~(last.op = "impl" /\ last.err = "ok" /\ owners[last.owner].ns_ = None)

\* impl("add", f) in a TORCH_LIBRARY_IMPL of the wildcard namespace returned,
\* and the implementation is registered under what the read of the empty
\* ns_ yielded.
C18_Witness ==
  /\ last.op = "impl" /\ last.err = "ok"
  /\ owners[last.owner].kind_ = Library_IMPL /\ owners[last.owner].ns_ = None
  /\ \E r \in registrations :
       /\ r.what = "impl" /\ r.op.ns = Garbage
       /\ r.h = owners[last.owner].registrars_[Len(owners[last.owner].registrars_)]


\* ------------------------------------------------------- alias analysis
\* C19: an op() call given only a name and FROM_SCHEMA fails (with the error
\* of lines 73-77 when the kernels are such that it gets that far) and
\* registers nothing; an op() call given only a name that succeeds registers
\* a definition whose alias analysis is the one given, never FROM_SCHEMA; an
\* op() call with a schema registers the schema with the alias analysis given
\* to the call, or its own when none is given; def(name, f) registers the
\* inferred schema with CONSERVATIVE.
C19_InferredNeverFromSchema ==
  [][ /\ last'.op = "op" =>
           LET options == last'.args[1]
               o == last'.owner
           IN /\ (NameOnly(options) /\ options.aliasAnalysisKind_ = FROM_SCHEMA) =>
                   /\ last'.err /= "ok"
                   /\ (Inferable(options.kernels) /\ ~HasDuplicateKernels(options.kernels))
                        => last'.err = "alias_from_schema_inferred"
                   /\ NothingCommitted
              /\ (NameOnly(options) /\ Len(Added(o)) >= 1) =>
                   /\ RegIn(registrations', Added(o)[1]).what = "def"
                   /\ RegIn(registrations', Added(o)[1]).schema.alias_kind /= FROM_SCHEMA
                   /\ RegIn(registrations', Added(o)[1]).schema.alias_kind =
                        options.aliasAnalysisKind_
              /\ (options.schemaOrName_.is_right /\ Len(Added(o)) >= 1) =>
                   /\ RegIn(registrations', Added(o)[1]).what = "def"
                   /\ RegIn(registrations', Added(o)[1]).schema.alias_kind =
                        IF options.aliasAnalysisKind_ /= None
                        THEN options.aliasAnalysisKind_
                        ELSE options.schemaOrName_.right.alias_kind
      /\ (last'.op = "def_kernel" /\ ~last'.args[1].is_right
            /\ Len(Added(last'.owner)) >= 1) =>
           /\ RegIn(registrations', Added(last'.owner)[1]).what = "def"
           /\ Shape(RegIn(registrations', Added(last'.owner)[1]).schema) =
                Shape(last'.args[2].schema_)
           /\ RegIn(registrations', Added(last'.owner)[1]).schema.alias_kind = CONSERVATIVE
    ]_vars

\* op() with a name, a kernel to infer the schema from and FROM_SCHEMA failed
\* on the check of the alias analysis.
C19_Witness ==
  /\ last.op = "op" /\ last.err = "alias_from_schema_inferred"
  /\ NameOnly(last.args[1])
  /\ last.args[1].aliasAnalysisKind_ = FROM_SCHEMA
  /\ Inferable(last.args[1].kernels)


\* ------------------------------------------------ table and handles
\* All handles held, owner by owner.
RECURSIVE HandlesOf(_)
HandlesOf(n) == IF n = 0 THEN <<>> ELSE HandlesOf(n - 1) \o owners[n].registrars_

\* C20: in every state, whatever constructions, calls (successful or not),
\* moves and destructions led to it, the handles in the registrars_ of the
\* owners (Libraries constructed or under construction, RegisterOperators)
\* are pairwise different and stand for exactly the registrations in the
\* table; an owner that was destroyed or moved from holds none.
C20_OneToOne ==
  LET held == HandlesOf(NumOwners)
  IN /\ \A i, j \in 1..Len(held) : held[i] = held[j] => i = j
     /\ SeqToSet(held) = { r.h : r \in registrations }
     /\ Len(held) = Cardinality(registrations)
     /\ \A r1, r2 \in registrations : r1.h = r2.h => r1 = r2
     /\ \A o \in Owners :
          owners[o].state \in {"none", "moved"} => owners[o].registrars_ = <<>>

\* An op() call failed and left its definition: the table holds it and the
\* registrations of a Library, each with its handle in its owner.
C20_Witness ==
  /\ last.op = "op" /\ last.err = "conflict"
  /\ owners[last.owner].registrars_ /= <<>>
  /\ \E p \in Owners : owners[p].cls = "Library" /\ owners[p].registrars_ /= <<>>
  /\ Cardinality(registrations) = 3

====
